---------------------------- MODULE Spec2Model ----------------------------
(***************************************************************************)
(* L-system rewriter (LSystem) and turtle renderer (TurtleRenderer) of     *)
(* src/src/lsystem.ts.                                                     *)
(*                                                                         *)
(* A string is a sequence of one-character strings.  An angle is held in   *)
(* units of pi/180 radians, so that the headings the turtle reaches with a *)
(* right-angle step have exact sines and cosines.                          *)
(***************************************************************************)
EXTENDS Integers, Sequences, FiniteSets, TLC

VARIABLES
    \* LSystem (lsystem.ts 7-10)
    axiom, rules, currentGeneration, generation,
    \* a caller holding a generator returned by generateCommands
    lazyGen, lazyN, lazyOut,
    \* TurtleRenderer (lsystem.ts 131-148)
    x, y, angle, stepSize, angleStep, stack,
    transform, isDragging, lastMousePos,
    commandGenerator, commandsProcessed, estimatedTotalCommands,
    animationSpeed, isAnimating, isPaused, animationTimeoutId,
    \* the pending timeouts of the window
    timers,
    \* the canvas context: current point of its path, lines stroked so far
    penPos, segments,
    \* history of the animation: the symbols executed since draw(), the whole
    \* stream draw() bound, and what the last pauseAnimation(),
    \* stopAnimation() or clear() interrupted
    executed, stream, interrupted,
    \* history of the turtle: the last command executed, the stack depth it
    \* found, the cursors saved by the open '[' and the one saved by the '['
    \* that the last ']' closed
    lastCommand, lastDepth, marks, matched,
    \* counters that bound the model
    viewEvents, draws,
    \* the last calls made on the LSystem, oldest first, and what the last
    \* getEstimatedLength(iterations) returned to its caller
    calls, estimate,
    \* the eager whole-string TurtleRenderer (lsystem.ts 477-600) and the
    \* string its draw() was last given
    eagerTurtle

lsysVars == <<axiom, rules, currentGeneration, generation>>
lazyVars == <<lazyGen, lazyN, lazyOut>>
rendererVars ==
    <<x, y, angle, stepSize, angleStep, stack, transform, isDragging,
      lastMousePos, commandGenerator, commandsProcessed,
      estimatedTotalCommands, animationSpeed, isAnimating, isPaused,
      animationTimeoutId, timers, penPos, segments, executed>>
animHistVars == <<stream, interrupted, viewEvents, draws>>
turtleHistVars == <<lastCommand, lastDepth, marks, matched>>
lsysHistVars == <<calls, estimate>>
eagerVars == <<eagerTurtle>>
vars ==
    <<lsysVars, lazyVars, rendererVars, animHistVars, turtleHistVars,
      lsysHistVars, eagerVars>>

---------------------------------------------------------------------------
(* Bounds *)

\* iterate() is not called beyond this generation
MaxGeneration == 2
\* largest iteration count passed to iterateN / generateCommands
MaxIterations == 2
\* longest command sequence fed to the turtle state machine
MaxCommands == 5
\* largest iteration count of a stream handed to draw()
MaxDrawIterations == 1
\* number of draw() calls, and of calls that redraw (wheel, drag, resetView)
MaxDraws == 2
MaxViewEvents == 1
\* number of LSystem calls the history `calls` keeps
CallWindow == 3
\* largest iteration count passed to getEstimatedLength
MaxEstimateIterations == 5
\* number of wheel, drag and resetView events in the view-only specification
MaxViewSteps == 3
\* position of the canvas in the window (getBoundingClientRect)
RectLeft == 8
RectTop == 8
\* the canvas element is 2 * CanvasHalfWidth wide and CanvasHeight high
CanvasHalfWidth == 400
CanvasHeight == 600

---------------------------------------------------------------------------
(* LSystem *)

\* the rule lists and axioms handed to the constructor
KochRules == << [from |-> "F", to |-> <<"F", "+", "F", "-", "F", "-", "F", "+", "F">>] >>
SierpinskiRules ==
    << [from |-> "F", to |-> <<"F", "-", "G", "+", "F", "+", "G", "-", "F">>],
       [from |-> "G", to |-> <<"G", "G">>] >>
ErasingRules ==
    << [from |-> "F", to |-> <<>>],
       [from |-> "G", to |-> <<"G", "F">>] >>
OverridingRules ==
    << [from |-> "F", to |-> <<"G">>],
       [from |-> "F", to |-> <<"F", "X">>] >>

Systems ==
    { [axiom |-> <<"F">>, rules |-> KochRules],
      [axiom |-> <<"F", "-", "G", "-", "G">>, rules |-> SierpinskiRules],
      [axiom |-> <<"F", "X", "G">>, rules |-> ErasingRules],
      [axiom |-> <<"F", "+">>, rules |-> OverridingRules],
      [axiom |-> <<>>, rules |-> KochRules] }

\* constructor loop: this.rules.set(rule.from, rule.to), later entries win
RECURSIVE RulesMap(_, _, _)
RulesMap(list, i, m) ==
    IF i > Len(list) THEN m
    ELSE RulesMap(list, i + 1,
            [k \in (DOMAIN m) \cup {list[i].from} |->
                IF k = list[i].from THEN list[i].to ELSE m[k]])

EmptyMap == [k \in {} |-> <<>>]

\* `this.rules.get(char) || char`: an absent entry and an empty replacement
\* are both falsy, and give the character itself
Replacement(r, char) ==
    IF char \in DOMAIN r /\ r[char] # <<>> THEN r[char] ELSE <<char>>

\* the loop of iterate(): newGeneration += replacement || char
RECURSIVE RewriteLoop(_, _, _, _)
RewriteLoop(r, str, i, newGeneration) ==
    IF i > Len(str) THEN newGeneration
    ELSE RewriteLoop(r, str, i + 1, newGeneration \o Replacement(r, str[i]))

Rewrite(r, str) == RewriteLoop(r, str, 1, <<>>)

\* iterate() called n times on str
RECURSIVE RewriteN(_, _, _)
RewriteN(r, str, n) ==
    IF n <= 0 THEN str ELSE RewriteN(r, Rewrite(r, str), n - 1)

\* constructor
LSystemNew(s) ==
    /\ axiom = s.axiom
    /\ rules = RulesMap(s.rules, 1, EmptyMap)
    /\ currentGeneration = s.axiom
    /\ generation = 0


iterate ==
    /\ generation < MaxGeneration
    /\ currentGeneration' = Rewrite(rules, currentGeneration)
    /\ generation' = generation + 1
    /\ UNCHANGED <<axiom, rules>>

\* an iterateN whose loop runs once more: for (i = 0; i <= n; i++)
iterateN_oneTooMany(n) ==
    /\ generation + n <= MaxGeneration
    /\ currentGeneration' = RewriteN(rules, currentGeneration, n + 1)
    /\ generation' = generation + n + 1
    /\ UNCHANGED <<axiom, rules>>

iterateN(n) ==
    /\ generation + n <= MaxGeneration
    /\ currentGeneration' = RewriteN(rules, currentGeneration, n)
    /\ generation' = generation + n
    /\ UNCHANGED <<axiom, rules>>

\* a reset that restores the counter and leaves the sequence
LSystem_reset_keepsSequence ==
    /\ generation' = 0
    /\ UNCHANGED <<axiom, rules, currentGeneration>>

LSystem_reset ==
    /\ currentGeneration' = axiom
    /\ generation' = 0
    /\ UNCHANGED <<axiom, rules>>

---------------------------------------------------------------------------
(* The generator of generateCommands / expandString.                       *)
(* A suspended generator is the stack of its active expandString calls,    *)
(* innermost last: the string each call loops over, the index of the next  *)
(* character of that loop, and the call's `iterations`.                    *)

NullGen == [null |-> TRUE]

Frame(str, iterations) == [str |-> str, idx |-> 1, iterations |-> iterations]

\* a generateCommands that expands the current generation, not the axiom
generateCommands_fromCurrent(iterations) ==
    [frames |-> << Frame(currentGeneration, iterations) >>, done |-> FALSE]

\* generateCommands(iterations): iterations = 0 loops over the axiom and
\* yields each character, as expandString(axiom, 0) does; otherwise it
\* delegates to expandString(axiom, iterations)
generateCommands(iterations) ==
    [frames |-> << Frame(axiom, iterations) >>, done |-> FALSE]

\* runs the generator to its next yield, or to its return
RECURSIVE Resume(_, _)
Resume(r, frames) ==
    IF frames = <<>> THEN [done |-> TRUE, value |-> "", frames |-> <<>>]
    ELSE
      LET d == Len(frames)
          top == frames[d]
      IN  IF top.idx > Len(top.str)
          THEN Resume(r, SubSeq(frames, 1, d - 1))
          ELSE
            LET char == top.str[top.idx]
                advanced == [frames EXCEPT ![d].idx = top.idx + 1]
            IN  IF top.iterations = 0
                THEN [done |-> FALSE, value |-> char, frames |-> advanced]
                ELSE Resume(r, Append(advanced,
                        Frame(Replacement(r, char), top.iterations - 1)))

\* generator.next()
GeneratorNext(g) ==
    IF g.done THEN [done |-> TRUE, value |-> "", gen |-> g]
    ELSE LET res == Resume(rules, g.frames)
         IN  [done |-> res.done, value |-> res.value,
              gen |-> [frames |-> res.frames, done |-> res.done]]

NoLazyCaller ==
    /\ lazyGen = NullGen
    /\ lazyN = 0
    /\ lazyOut = <<>>

\* a caller asks for the lazy expansion
CallGenerateCommands(n) ==
    /\ lazyGen' = generateCommands(n)
    /\ lazyN' = n
    /\ lazyOut' = <<>>
    /\ UNCHANGED lsysVars

\* the caller pulls one symbol
PullNext ==
    /\ lazyGen # NullGen
    /\ ~lazyGen.done
    /\ LET res == GeneratorNext(lazyGen)
       IN  /\ lazyGen' = res.gen
           /\ lazyOut' = IF res.done THEN lazyOut ELSE Append(lazyOut, res.value)
    /\ UNCHANGED <<lazyN, lsysVars>>

---------------------------------------------------------------------------
(* Rational numbers <<numerator, denominator>> for the view transform *)

RECURSIVE Gcd(_, _)
Gcd(a, b) == IF b = 0 THEN a ELSE Gcd(b, a % b)
Abs(a) == IF a < 0 THEN -a ELSE a

Rat(n, d) ==
    LET g == Gcd(Abs(n), Abs(d))
        sgn == IF d < 0 THEN -1 ELSE 1
    IN  << sgn * (n \div g), sgn * (d \div g) >>
RInt(n) == << n, 1 >>
RAdd(p, q) == Rat(p[1] * q[2] + q[1] * p[2], p[2] * q[2])
RSub(p, q) == Rat(p[1] * q[2] - q[1] * p[2], p[2] * q[2])
RMul(p, q) == Rat(p[1] * q[1], p[2] * q[2])
RDiv(p, q) == Rat(p[1] * q[2], p[2] * q[1])
RLess(p, q) == p[1] * q[2] < q[1] * p[2]
RMax(p, q) == IF RLess(p, q) THEN q ELSE p
RMin(p, q) == IF RLess(p, q) THEN p ELSE q

---------------------------------------------------------------------------
(* TurtleRenderer.  The operators work on a record of the renderer's       *)
(* fields, of the canvas context and of the pending timeouts, and return   *)
(* the record after the call.                                              *)

\* constructor defaults: stepSize = 10, angleStep = 90
DefaultStepSize == 10
DefaultAngleStep == 90
\* reset(): this.y = this.canvas.height - 50
ResetMargin == 50
\* reset(): this.angle = -Math.PI / 2
ResetAngle == -90
\* animationSpeed = 50; setAnimationSpeed clamps to [1, 100]
DefaultSpeed == 50
MinSpeed == 1
MaxSpeed == 100
\* animationTimeoutId = null; the ids setTimeout returns are positive
NullTimeout == 0

\* Math.cos / Math.sin of a heading that is a multiple of a right angle
Cos(a) ==
    LET m == a % 360
    IN  CASE m = 0 -> 1 [] m = 90 -> 0 [] m = 180 -> -1 [] m = 270 -> 0
Sin(a) ==
    LET m == a % 360
    IN  CASE m = 0 -> 0 [] m = 90 -> 1 [] m = 180 -> 0 [] m = 270 -> -1

ResetX == CanvasHalfWidth
ResetY == CanvasHeight - ResetMargin

Renderer ==
    [x |-> x, y |-> y, angle |-> angle, stepSize |-> stepSize,
     angleStep |-> angleStep, stack |-> stack,
     transform |-> transform, isDragging |-> isDragging,
     lastMousePos |-> lastMousePos,
     commandGenerator |-> commandGenerator,
     commandsProcessed |-> commandsProcessed,
     estimatedTotalCommands |-> estimatedTotalCommands,
     animationSpeed |-> animationSpeed,
     isAnimating |-> isAnimating, isPaused |-> isPaused,
     animationTimeoutId |-> animationTimeoutId,
     timers |-> timers, penPos |-> penPos, segments |-> segments,
     executed |-> executed]

SetRenderer(r) ==
    /\ x' = r.x
    /\ y' = r.y
    /\ angle' = r.angle
    /\ stepSize' = r.stepSize
    /\ angleStep' = r.angleStep
    /\ stack' = r.stack
    /\ transform' = r.transform
    /\ isDragging' = r.isDragging
    /\ lastMousePos' = r.lastMousePos
    /\ commandGenerator' = r.commandGenerator
    /\ commandsProcessed' = r.commandsProcessed
    /\ estimatedTotalCommands' = r.estimatedTotalCommands
    /\ animationSpeed' = r.animationSpeed
    /\ isAnimating' = r.isAnimating
    /\ isPaused' = r.isPaused
    /\ animationTimeoutId' = r.animationTimeoutId
    /\ timers' = r.timers
    /\ penPos' = r.penPos
    /\ segments' = r.segments
    /\ executed' = r.executed

\* canvas context: moveTo starts a subpath at the point; lineTo joins the
\* current point to the point (on an empty path it only sets the point);
\* stroke draws the joined line; clearRect wipes what was stroked
MoveTo(r, px, py) == [r EXCEPT !.penPos = <<px, py>>]
LineToStroke(r, px, py) ==
    IF r.penPos = <<>> THEN r
    ELSE [r EXCEPT !.segments =
            Append(@, [x0 |-> r.penPos[1], y0 |-> r.penPos[2], x1 |-> px, y1 |-> py])]
ClearRect(r) == [r EXCEPT !.segments = <<>>]

\* window.setTimeout(callback, animationSpeed): a new pending timeout
SetTimeout(r) ==
    LET used == {t.id : t \in r.timers} \cup {r.animationTimeoutId}
        id == CHOOSE i \in 1..(Cardinality(used) + 1) :
                 i \notin used /\ \A j \in 1..(i - 1) : j \in used
    IN  [r EXCEPT !.timers = @ \cup {[id |-> id, delay |-> r.animationSpeed]},
                  !.animationTimeoutId = id]

\* if (this.animationTimeoutId) { clearTimeout(...); this.animationTimeoutId = null }
ClearPendingTimeout(r) ==
    IF r.animationTimeoutId # NullTimeout
    THEN [r EXCEPT !.timers = {t \in @ : t.id # r.animationTimeoutId},
                   !.animationTimeoutId = NullTimeout]
    ELSE r

Turtle_reset(r) ==
    [r EXCEPT !.x = ResetX, !.y = ResetY, !.angle = ResetAngle, !.stack = <<>>]

drawForward(r) ==
    LET newX == r.x + r.stepSize * Cos(r.angle)
        newY == r.y + r.stepSize * Sin(r.angle)
        drawn == MoveTo(LineToStroke(r, newX, newY), newX, newY)
    IN  [drawn EXCEPT !.x = newX, !.y = newY]

moveForward(r) ==
    LET newX == r.x + r.stepSize * Cos(r.angle)
        newY == r.y + r.stepSize * Sin(r.angle)
    IN  MoveTo([r EXCEPT !.x = newX, !.y = newY], newX, newY)

turnRight(r) == [r EXCEPT !.angle = @ + r.angleStep]

\* a turnLeft that turns the way turnRight does
turnLeft_adds(r) == [r EXCEPT !.angle = @ + r.angleStep]

turnLeft(r) == [r EXCEPT !.angle = @ - r.angleStep]

\* a pushState that saves nothing
pushState_keepsNothing(r) == r

pushState(r) ==
    [r EXCEPT !.stack = Append(@, [x |-> r.x, y |-> r.y, angle |-> r.angle])]

\* a popState that restores the position and keeps the heading
popState_keepsAngle(r) ==
    IF r.stack = <<>> THEN r
    ELSE LET state == r.stack[Len(r.stack)]
             popped == [r EXCEPT !.stack = SubSeq(@, 1, Len(@) - 1),
                                 !.x = state.x, !.y = state.y]
         IN  MoveTo(popped, state.x, state.y)

\* a popState that falls back to the reset cursor when nothing was saved
popState_resetsOnEmpty(r) ==
    IF r.stack = <<>>
    THEN MoveTo([r EXCEPT !.x = ResetX, !.y = ResetY, !.angle = ResetAngle],
                ResetX, ResetY)
    ELSE LET state == r.stack[Len(r.stack)]
             popped == [r EXCEPT !.stack = SubSeq(@, 1, Len(@) - 1),
                                 !.x = state.x, !.y = state.y,
                                 !.angle = state.angle]
         IN  MoveTo(popped, state.x, state.y)

\* stack.pop() of an empty array is undefined, and the branch is skipped
popState(r) ==
    IF r.stack = <<>> THEN r
    ELSE LET state == r.stack[Len(r.stack)]
             popped == [r EXCEPT !.stack = SubSeq(@, 1, Len(@) - 1),
                                 !.x = state.x, !.y = state.y,
                                 !.angle = state.angle]
         IN  MoveTo(popped, state.x, state.y)

executeCommand(r, command) ==
    CASE command \in {"F", "G"} -> drawForward(r)
      [] command = "f" -> moveForward(r)
      [] command = "+" -> turnRight(r)
      [] command = "-" -> turnLeft(r)
      [] command = "[" -> pushState(r)
      [] command = "]" -> popState(r)
      [] OTHER -> r

\* redraw(): wipes the canvas, resets the turtle, restarts the path
redraw(r) ==
    LET t == Turtle_reset(ClearRect(r))
    IN  MoveTo(t, t.x, t.y)

IdentityTransform == [scale |-> RInt(1), offsetX |-> RInt(0), offsetY |-> RInt(0)]

resetView(r) == redraw([r EXCEPT !.transform = IdentityTransform])

\* zoom bounds and factors of handleWheel
MinScale == Rat(1, 10)
MaxScale == RInt(10)
ZoomOut == Rat(9, 10)
ZoomIn == Rat(11, 10)

\* a zoom that scales about the canvas origin: the offset is not recomputed
handleWheel_keepsOffset(r, mouseX, mouseY, deltaY) ==
    LET tr == r.transform
        zoomFactor == IF deltaY > 0 THEN ZoomOut ELSE ZoomIn
        newScale == RMax(MinScale, RMin(MaxScale, RMul(tr.scale, zoomFactor)))
    IN  redraw([r EXCEPT !.transform.scale = newScale])

\* a zoom that does not clamp the scale
handleWheel_unclamped(r, mouseX, mouseY, deltaY) ==
    LET tr == r.transform
        zoomFactor == IF deltaY > 0 THEN ZoomOut ELSE ZoomIn
        newScale == RMul(tr.scale, zoomFactor)
        worldX == RDiv(RSub(RInt(mouseX), tr.offsetX), tr.scale)
        worldY == RDiv(RSub(RInt(mouseY), tr.offsetY), tr.scale)
    IN  redraw([r EXCEPT !.transform =
                  [scale |-> newScale,
                   offsetX |-> RSub(RInt(mouseX), RMul(worldX, newScale)),
                   offsetY |-> RSub(RInt(mouseY), RMul(worldY, newScale))]])

\* mouseX, mouseY: the pointer relative to the canvas
handleWheel(r, mouseX, mouseY, deltaY) ==
    LET tr == r.transform
        zoomFactor == IF deltaY > 0 THEN ZoomOut ELSE ZoomIn
        newScale == RMax(MinScale, RMin(MaxScale, RMul(tr.scale, zoomFactor)))
        worldX == RDiv(RSub(RInt(mouseX), tr.offsetX), tr.scale)
        worldY == RDiv(RSub(RInt(mouseY), tr.offsetY), tr.scale)
    IN  redraw([r EXCEPT !.transform =
                  [scale |-> newScale,
                   offsetX |-> RSub(RInt(mouseX), RMul(worldX, newScale)),
                   offsetY |-> RSub(RInt(mouseY), RMul(worldY, newScale))]])

handleMouseDown(r, clientX, clientY) ==
    [r EXCEPT !.isDragging = TRUE, !.lastMousePos = <<clientX, clientY>>]

handleMouseMove(r, clientX, clientY) ==
    IF ~r.isDragging THEN r
    ELSE LET deltaX == clientX - r.lastMousePos[1]
             deltaY == clientY - r.lastMousePos[2]
         IN  redraw([r EXCEPT !.transform.offsetX = RAdd(@, RInt(deltaX)),
                              !.transform.offsetY = RAdd(@, RInt(deltaY)),
                              !.lastMousePos = <<clientX, clientY>>])

handleMouseUp(r) == [r EXCEPT !.isDragging = FALSE]

\* a clear that leaves the pending timeout armed
clear_keepsTimeout(r) ==
    [ClearRect([r EXCEPT !.isAnimating = FALSE, !.isPaused = FALSE])
        EXCEPT !.commandGenerator = NullGen,
               !.commandsProcessed = 0,
               !.estimatedTotalCommands = 0]

\* a clear that leaves the stream bound
clear_keepsGenerator(r) ==
    LET stopped == ClearPendingTimeout(
                      [r EXCEPT !.isAnimating = FALSE, !.isPaused = FALSE])
    IN  [ClearRect(stopped) EXCEPT !.commandsProcessed = 0,
                                   !.estimatedTotalCommands = 0]

clear(r) ==
    LET stopped == ClearPendingTimeout(
                      [r EXCEPT !.isAnimating = FALSE, !.isPaused = FALSE])
    IN  [ClearRect(stopped) EXCEPT !.commandGenerator = NullGen,
                                   !.commandsProcessed = 0,
                                   !.estimatedTotalCommands = 0]

draw(r, generator, estimatedLength) ==
    MoveTo([r EXCEPT !.commandGenerator = generator,
                     !.commandsProcessed = 0,
                     !.estimatedTotalCommands = estimatedLength],
           r.x, r.y)

\* a tick that executes the symbol and does not count it
processNextCommand_skipsCount(r) ==
    IF ~r.isAnimating \/ r.isPaused THEN r
    ELSE IF r.commandGenerator = NullGen THEN [r EXCEPT !.isAnimating = FALSE]
    ELSE
      LET nextCommand == GeneratorNext(r.commandGenerator)
          pulled == [r EXCEPT !.commandGenerator = nextCommand.gen]
      IN  IF nextCommand.done THEN [pulled EXCEPT !.isAnimating = FALSE]
          ELSE SetTimeout(
                 [executeCommand(pulled, nextCommand.value)
                    EXCEPT !.executed = Append(@, nextCommand.value)])

\* a tick that executes its symbol and schedules no further tick
processNextCommand_noReschedule(r) ==
    IF ~r.isAnimating \/ r.isPaused THEN r
    ELSE IF r.commandGenerator = NullGen THEN [r EXCEPT !.isAnimating = FALSE]
    ELSE
      LET nextCommand == GeneratorNext(r.commandGenerator)
          pulled == [r EXCEPT !.commandGenerator = nextCommand.gen]
      IN  IF nextCommand.done THEN [pulled EXCEPT !.isAnimating = FALSE]
          ELSE [executeCommand(pulled, nextCommand.value)
                  EXCEPT !.executed = Append(@, nextCommand.value),
                         !.commandsProcessed = @ + 1]

\* one tick; `executed` is the history of the symbols executed since draw()
processNextCommand(r) ==
    IF ~r.isAnimating \/ r.isPaused THEN r
    ELSE IF r.commandGenerator = NullGen THEN [r EXCEPT !.isAnimating = FALSE]
    ELSE
      LET nextCommand == GeneratorNext(r.commandGenerator)
          pulled == [r EXCEPT !.commandGenerator = nextCommand.gen]
      IN  IF nextCommand.done THEN [pulled EXCEPT !.isAnimating = FALSE]
          ELSE SetTimeout(
                 [executeCommand(pulled, nextCommand.value)
                    EXCEPT !.commandsProcessed = @ + 1,
                           !.executed = Append(@, nextCommand.value)])

\* a start that does not look whether the animation is already running
startAnimation_noRunningGuard(r) ==
    IF r.commandGenerator = NullGen THEN r
    ELSE processNextCommand([r EXCEPT !.isAnimating = TRUE, !.isPaused = FALSE])

\* a start that resumes only by the tick it schedules anew, whether or not
\* the animation is already running
startAnimation_alwaysSchedules(r) ==
    IF r.commandGenerator = NullGen THEN r
    ELSE SetTimeout([r EXCEPT !.isAnimating = TRUE, !.isPaused = FALSE])

startAnimation(r) ==
    IF r.commandGenerator = NullGen THEN r
    ELSE IF r.isAnimating /\ ~r.isPaused THEN r
    ELSE processNextCommand([r EXCEPT !.isAnimating = TRUE, !.isPaused = FALSE])

\* a pause that leaves the pending timeout armed
pauseAnimation_keepsTimeout(r) == [r EXCEPT !.isPaused = TRUE]

\* a pause that forgets how many symbols were processed
pauseAnimation_dropsCount(r) ==
    ClearPendingTimeout([r EXCEPT !.isPaused = TRUE, !.commandsProcessed = 0])

pauseAnimation(r) == ClearPendingTimeout([r EXCEPT !.isPaused = TRUE])

\* a stop that leaves the pending timeout armed
stopAnimation_keepsTimeout(r) ==
    LET stopped == [r EXCEPT !.isAnimating = FALSE, !.isPaused = FALSE]
        t == Turtle_reset(ClearRect([stopped EXCEPT !.commandsProcessed = 0]))
    IN  MoveTo(t, t.x, t.y)

stopAnimation(r) ==
    LET stopped == ClearPendingTimeout(
                      [r EXCEPT !.isAnimating = FALSE, !.isPaused = FALSE])
        t == Turtle_reset(ClearRect([stopped EXCEPT !.commandsProcessed = 0]))
    IN  MoveTo(t, t.x, t.y)

Min(a, b) == IF a < b THEN a ELSE b
Max(a, b) == IF a > b THEN a ELSE b

\* a speed change that re-arms the pending timeouts with the new delay
setAnimationSpeed_rearms(r, speed) ==
    LET clamped == Max(MinSpeed, Min(MaxSpeed, speed))
    IN  [r EXCEPT !.animationSpeed = clamped,
                  !.timers = {[t EXCEPT !.delay = clamped] : t \in @}]

setAnimationSpeed(r, speed) ==
    [r EXCEPT !.animationSpeed = Max(MinSpeed, Min(MaxSpeed, speed))]

---------------------------------------------------------------------------
(* The eager whole-string TurtleRenderer (lsystem.ts 477-600): draw(string) *)
(* executes every command of the string in one call.  Its object is a      *)
(* record of its fields and of its canvas context; `calls` counts the      *)
(* draw() calls and `given` is the string the last one was given.          *)

\* constructor (lsystem.ts 487-494), with the reset() it ends with
Eager_new ==
    [x |-> ResetX, y |-> ResetY, angle |-> ResetAngle,
     stepSize |-> DefaultStepSize, angleStep |-> DefaultAngleStep,
     stack |-> <<>>, penPos |-> <<>>, segments |-> <<>>,
     calls |-> 0, given |-> <<>>]

Eager_drawForward(e) ==
    LET newX == e.x + e.stepSize * Cos(e.angle)
        newY == e.y + e.stepSize * Sin(e.angle)
        drawn == MoveTo(LineToStroke(e, newX, newY), newX, newY)
    IN  [drawn EXCEPT !.x = newX, !.y = newY]

Eager_moveForward(e) ==
    LET moved == [e EXCEPT !.x = @ + e.stepSize * Cos(e.angle),
                           !.y = @ + e.stepSize * Sin(e.angle)]
    IN  MoveTo(moved, moved.x, moved.y)

Eager_turnRight(e) == [e EXCEPT !.angle = @ + e.angleStep]

Eager_turnLeft(e) == [e EXCEPT !.angle = @ - e.angleStep]

Eager_pushState(e) ==
    [e EXCEPT !.stack = Append(@, [x |-> e.x, y |-> e.y, angle |-> e.angle])]

\* a popState that restores the cursor and leaves it on the stack
Eager_popState_keepsStack(e) ==
    IF e.stack = <<>> THEN e
    ELSE LET state == e.stack[Len(e.stack)]
         IN  MoveTo([e EXCEPT !.x = state.x, !.y = state.y,
                              !.angle = state.angle],
                    state.x, state.y)

Eager_popState(e) ==
    IF e.stack = <<>> THEN e
    ELSE LET state == e.stack[Len(e.stack)]
             popped == [e EXCEPT !.stack = SubSeq(@, 1, Len(@) - 1),
                                 !.x = state.x, !.y = state.y,
                                 !.angle = state.angle]
         IN  MoveTo(popped, popped.x, popped.y)

Eager_executeCommand(e, command) ==
    CASE command = "F" -> Eager_drawForward(e)
      [] command = "G" -> Eager_drawForward(e)
      [] command = "f" -> Eager_moveForward(e)
      [] command = "+" -> Eager_turnRight(e)
      [] command = "-" -> Eager_turnLeft(e)
      [] command = "[" -> Eager_pushState(e)
      [] command = "]" -> Eager_popState(e)
      [] OTHER -> e

\* for (const command of lsystemString) this.executeCommand(command)
RECURSIVE Eager_drawLoop(_, _, _)
Eager_drawLoop(e, lsystemString, i) ==
    IF i > Len(lsystemString) THEN e
    ELSE Eager_drawLoop(Eager_executeCommand(e, lsystemString[i]),
                        lsystemString, i + 1)

\* draw(lsystemString): the path starts at the cursor
Eager_draw(e, lsystemString) ==
    Eager_drawLoop([MoveTo(e, e.x, e.y) EXCEPT !.calls = @ + 1,
                                               !.given = lsystemString],
                   lsystemString, 1)

\* progress is a quotient of two counts, kept exact
getAnimationState(r) ==
    [isAnimating |-> r.isAnimating,
     isPaused |-> r.isPaused,
     progress |-> IF r.estimatedTotalCommands > 0
                  THEN Rat(r.commandsProcessed, r.estimatedTotalCommands)
                  ELSE RInt(0)]

\* constructor (lsystem.ts 150-161) and the field initialisers (142-148)
Constructed ==
    /\ stepSize = DefaultStepSize
    /\ angleStep = DefaultAngleStep
    /\ x = ResetX
    /\ y = ResetY
    /\ angle = ResetAngle
    /\ stack = <<>>
    /\ transform = IdentityTransform
    /\ isDragging = FALSE
    /\ lastMousePos = <<0, 0>>
    /\ commandGenerator = NullGen
    /\ commandsProcessed = 0
    /\ estimatedTotalCommands = 0
    /\ animationSpeed = DefaultSpeed
    /\ isAnimating = FALSE
    /\ isPaused = FALSE
    /\ animationTimeoutId = NullTimeout
    /\ timers = {}
    /\ segments = <<>>
    /\ executed = <<>>

\* no call has interrupted an animation yet; `again` records that
\* startAnimation() was called on a running, unpaused animation since
NoInterrupt ==
    [kind |-> "none", pos |-> -1, pending |-> FALSE, resumed |-> FALSE,
     again |-> FALSE]

\* getEstimatedLength has not been called
NoEstimate == [iterations |-> -1, nan |-> FALSE, value |-> 0]

HistInit ==
    /\ lastCommand = ""
    /\ lastDepth = 0
    /\ marks = <<>>
    /\ matched = <<>>
    /\ stream = <<>>
    /\ interrupted = NoInterrupt
    /\ viewEvents = 0
    /\ draws = 0
    /\ calls = <<>>
    /\ estimate = NoEstimate
    /\ eagerTurtle = Eager_new

---------------------------------------------------------------------------
(* The turtle state machine fed an arbitrary command sequence: the renderer *)
(* is constructed, the path is started at the cursor as draw() does, and    *)
(* each step is one executeCommand, counted as processNextCommand counts.   *)

\* the seven commands and one symbol that is none of them
Commands == {"F", "G", "f", "+", "-", "[", "]", "X"}

Cursor == [x |-> x, y |-> y, angle |-> angle, stack |-> stack]

\* the history records which '[' a ']' closes
Execute(command) ==
    /\ commandsProcessed < MaxCommands
    /\ SetRenderer([executeCommand(Renderer, command)
                      EXCEPT !.commandsProcessed = @ + 1])
    /\ lastCommand' = command
    /\ lastDepth' = Len(stack)
    /\ marks' = CASE command = "[" -> Append(marks, Cursor)
                  [] command = "]" /\ marks # <<>> -> SubSeq(marks, 1, Len(marks) - 1)
                  [] OTHER -> marks
    /\ matched' = IF command = "]" /\ marks # <<>>
                  THEN << marks[Len(marks)] >> ELSE <<>>
    /\ UNCHANGED <<lsysVars, lsysHistVars, lazyVars, eagerVars, animHistVars>>

InitT ==
    /\ LSystemNew([axiom |-> <<"F">>, rules |-> KochRules])
    /\ NoLazyCaller
    /\ Constructed
    /\ penPos = <<ResetX, ResetY>>
    /\ HistInit

NextT == \E command \in Commands : Execute(command)

SpecT == InitT /\ [][NextT]_vars

---------------------------------------------------------------------------
(* The animated renderer: the public methods called in any order, the      *)
(* pointer events of the canvas, and the timeouts firing.                  *)

\* the systems whose streams are drawn
PlantRules == << [from |-> "F", to |-> <<"F", "[", "+", "F", "]", "F">>] >>
AnimatedSystems ==
    { [axiom |-> <<"F">>, rules |-> PlantRules] }

\* the values the callers pass
EstimatedLengths == {2}
Speeds == {0, 200}
DownPoints == {<<8, 8>>}
MovePoints == {<<108, 58>>}
WheelPoints == {<<108, 58>>}
WheelDeltas == {-100, 100}

\* the stream a generator yields when pulled to exhaustion
RECURSIVE Drain(_)
Drain(g) ==
    LET res == GeneratorNext(g)
    IN  IF res.done THEN <<>> ELSE <<res.value>> \o Drain(res.gen)

Interrupt(kind) ==
    [kind |-> kind, pos |-> Len(executed), pending |-> timers # {},
     resumed |-> FALSE, again |-> FALSE]

Draw(n, estimatedLength) ==
    /\ draws < MaxDraws
    /\ LET generator == generateCommands(n)
       IN  /\ SetRenderer([draw(Renderer, generator, estimatedLength)
                             EXCEPT !.executed = <<>>])
           /\ stream' = Drain(generator)
    /\ draws' = draws + 1
    /\ interrupted' = [interrupted EXCEPT !.pos = -1]
    /\ UNCHANGED <<lsysVars, lsysHistVars, lazyVars, eagerVars,
                   turtleHistVars, viewEvents>>

StartAnimation ==
    /\ SetRenderer(startAnimation(Renderer))
    /\ interrupted' = [interrupted EXCEPT
                         !.resumed = TRUE,
                         !.again = @ \/ (isAnimating /\ ~isPaused)]
    /\ UNCHANGED <<lsysVars, lsysHistVars, lazyVars, eagerVars,
                   turtleHistVars, stream, viewEvents, draws>>

PauseAnimation ==
    /\ SetRenderer(pauseAnimation(Renderer))
    /\ interrupted' = Interrupt("pause")
    /\ UNCHANGED <<lsysVars, lsysHistVars, lazyVars, eagerVars,
                   turtleHistVars, stream, viewEvents, draws>>

StopAnimation ==
    /\ SetRenderer(stopAnimation(Renderer))
    /\ interrupted' = Interrupt("stop")
    /\ UNCHANGED <<lsysVars, lsysHistVars, lazyVars, eagerVars,
                   turtleHistVars, stream, viewEvents, draws>>

Clear ==
    /\ SetRenderer([clear(Renderer) EXCEPT !.executed = <<>>])
    /\ stream' = <<>>
    /\ interrupted' = Interrupt("clear")
    /\ UNCHANGED <<lsysVars, lsysHistVars, lazyVars, eagerVars,
                   turtleHistVars, viewEvents, draws>>

SetAnimationSpeed(speed) ==
    /\ SetRenderer(setAnimationSpeed(Renderer, speed))
    /\ UNCHANGED <<lsysVars, lsysHistVars, lazyVars, eagerVars, turtleHistVars, stream, interrupted,
                   viewEvents, draws>>

\* the pending timeout t fires and its callback runs processNextCommand
Tick(t) ==
    /\ t \in timers
    /\ SetRenderer(processNextCommand([Renderer EXCEPT !.timers = @ \ {t}]))
    /\ UNCHANGED <<lsysVars, lsysHistVars, lazyVars, eagerVars, turtleHistVars, stream, interrupted,
                   viewEvents, draws>>

Wheel(client, deltaY) ==
    /\ viewEvents < MaxViewEvents
    /\ SetRenderer(handleWheel(Renderer, client[1] - RectLeft,
                               client[2] - RectTop, deltaY))
    /\ viewEvents' = viewEvents + 1
    /\ UNCHANGED <<lsysVars, lsysHistVars, lazyVars, eagerVars,
                   turtleHistVars, stream, interrupted, draws>>

MouseDown(client) ==
    /\ SetRenderer(handleMouseDown(Renderer, client[1], client[2]))
    /\ UNCHANGED <<lsysVars, lsysHistVars, lazyVars, eagerVars, turtleHistVars, stream, interrupted,
                   viewEvents, draws>>

MouseMove(client) ==
    /\ isDragging => viewEvents < MaxViewEvents
    /\ SetRenderer(handleMouseMove(Renderer, client[1], client[2]))
    /\ viewEvents' = IF isDragging THEN viewEvents + 1 ELSE viewEvents
    /\ UNCHANGED <<lsysVars, lsysHistVars, lazyVars, eagerVars,
                   turtleHistVars, stream, interrupted, draws>>

MouseUp ==
    /\ SetRenderer(handleMouseUp(Renderer))
    /\ UNCHANGED <<lsysVars, lsysHistVars, lazyVars, eagerVars, turtleHistVars, stream, interrupted,
                   viewEvents, draws>>

ResetView ==
    /\ viewEvents < MaxViewEvents
    /\ SetRenderer(resetView(Renderer))
    /\ viewEvents' = viewEvents + 1
    /\ UNCHANGED <<lsysVars, lsysHistVars, lazyVars, eagerVars,
                   turtleHistVars, stream, interrupted, draws>>

Init ==
    /\ \E s \in AnimatedSystems : LSystemNew(s)
    /\ NoLazyCaller
    /\ Constructed
    /\ penPos = <<>>
    /\ HistInit

Next ==
    \/ \E n \in 0..MaxDrawIterations, e \in EstimatedLengths : Draw(n, e)
    \/ StartAnimation
    \/ PauseAnimation
    \/ StopAnimation
    \/ Clear
    \/ \E speed \in Speeds : SetAnimationSpeed(speed)
    \/ \E t \in timers : Tick(t)
    \/ \E client \in WheelPoints, deltaY \in WheelDeltas : Wheel(client, deltaY)
    \/ \E client \in DownPoints : MouseDown(client)
    \/ \E client \in MovePoints : MouseMove(client)
    \/ MouseUp
    \/ ResetView

Spec == Init /\ [][Next]_vars

\* One uninterrupted animation: draw() is called only before the animation
\* has begun, pauseAnimation(), stopAnimation() and clear() are not called,
\* and the window fires every timeout it holds (setTimeout, lsystem.ts
\* 396-398): a pending timeout stays pending until it fires.
NextRun ==
    \/ \E n \in 0..MaxDrawIterations, e \in EstimatedLengths :
         executed = <<>> /\ ~isAnimating /\ Draw(n, e)
    \/ StartAnimation
    \/ \E speed \in Speeds : SetAnimationSpeed(speed)
    \/ \E t \in timers : Tick(t)
    \/ \E client \in WheelPoints, deltaY \in WheelDeltas : Wheel(client, deltaY)
    \/ \E client \in DownPoints : MouseDown(client)
    \/ \E client \in MovePoints : MouseMove(client)
    \/ MouseUp
    \/ ResetView

\* Weak fairness of the timeout firing.  A Tick step is possible exactly
\* when a timeout is pending and always changes timers, so that the weak
\* fairness condition of the action \E t \in timers : Tick(t) is this formula.
TickFairness ==
    \/ []<>(timers = {})
    \/ []<><<\E t \in timers : Tick(t)>>_vars

SpecRun == Init /\ [][NextRun]_vars /\ TickFairness

\* Playback with the estimate a caller may pass: an estimate of 0, and one
\* that is below or above the length of the stream.
ProgressLengths == {0, 2}

NextP ==
    \/ \E n \in 0..MaxDrawIterations, e \in ProgressLengths :
         draws = 0 /\ Draw(n, e)
    \/ StartAnimation
    \/ PauseAnimation
    \/ StopAnimation
    \/ Clear
    \/ \E speed \in Speeds : SetAnimationSpeed(speed)
    \/ \E t \in timers : Tick(t)
    \/ \E client \in WheelPoints, deltaY \in WheelDeltas : Wheel(client, deltaY)
    \/ \E client \in DownPoints : MouseDown(client)
    \/ \E client \in MovePoints : MouseMove(client)
    \/ MouseUp
    \/ ResetView

SpecP == Init /\ [][NextP]_vars

\* Playback with the speeds a caller may pass: below, at and above the
\* limits, and between them.
SpeedInputs == {-3, 0, 1, 30, 100, 101}

NextS ==
    \/ \E n \in 0..MaxDrawIterations, e \in EstimatedLengths : Draw(n, e)
    \/ StartAnimation
    \/ PauseAnimation
    \/ StopAnimation
    \/ Clear
    \/ \E speed \in SpeedInputs : SetAnimationSpeed(speed)
    \/ \E t \in timers : Tick(t)

SpecS == Init /\ [][NextS]_vars

\* The two renderers given the same command string: the animated one has
\* the string as its stream and is not interrupted, the eager one draws it
\* in one call, each from the cursor its constructor left.
MaxStringLength == 4

CommandStrings == UNION {[1..k -> Commands] : k \in 0..MaxStringLength}

\* systems whose generation-0 stream is the command string, and the plant
RefinedSystems ==
    {[axiom |-> str, rules |-> <<>>] : str \in CommandStrings}
        \cup AnimatedSystems

\* the eager page rewrites n times and hands the whole string to draw()
EagerDraw(n) ==
    /\ eagerTurtle.calls = 0
    /\ eagerTurtle' = Eager_draw(eagerTurtle, RewriteN(rules, axiom, n))
    /\ UNCHANGED <<lsysVars, lsysHistVars, lazyVars, rendererVars,
                   animHistVars, turtleHistVars>>

InitR ==
    /\ \E s \in RefinedSystems : LSystemNew(s)
    /\ NoLazyCaller
    /\ Constructed
    /\ penPos = <<>>
    /\ HistInit

NextR ==
    \/ \E n \in 0..MaxDrawIterations, e \in EstimatedLengths :
         draws = 0 /\ Draw(n, e)
    \/ StartAnimation
    \/ \E t \in timers : Tick(t)
    \/ \E n \in 0..MaxDrawIterations : EagerDraw(n)

SpecR == InitR /\ [][NextR]_vars

---------------------------------------------------------------------------
(* The view transform alone: wheel, drag and resetView events on a renderer *)
(* that draws nothing.                                                     *)

\* the pointer positions (clientX, clientY) and wheel deltas of the events
ViewPoints == {<<RectLeft, RectTop>>, <<108, 58>>, <<308, 8>>}
ViewDeltas == {-100, 0, 100}

\* The scales the events start from: 1 after construction; 0.1 and 10 after
\* enough wheel events at the canvas origin, which clamp the scale and
\* leave the offset (0, 0).
StartScales == {RInt(1), MinScale, MaxScale}

WheelV(client, deltaY) ==
    /\ viewEvents < MaxViewSteps
    /\ SetRenderer(handleWheel(Renderer, client[1] - RectLeft,
                               client[2] - RectTop, deltaY))
    /\ viewEvents' = viewEvents + 1
    /\ UNCHANGED <<lsysVars, lsysHistVars, lazyVars, eagerVars,
                   turtleHistVars, stream, interrupted, draws>>

MouseMoveV(client) ==
    /\ isDragging => viewEvents < MaxViewSteps
    /\ SetRenderer(handleMouseMove(Renderer, client[1], client[2]))
    /\ viewEvents' = IF isDragging THEN viewEvents + 1 ELSE viewEvents
    /\ UNCHANGED <<lsysVars, lsysHistVars, lazyVars, eagerVars,
                   turtleHistVars, stream, interrupted, draws>>

ResetViewV ==
    /\ viewEvents < MaxViewSteps
    /\ SetRenderer(resetView(Renderer))
    /\ viewEvents' = viewEvents + 1
    /\ UNCHANGED <<lsysVars, lsysHistVars, lazyVars, eagerVars,
                   turtleHistVars, stream, interrupted, draws>>

InitV ==
    /\ \E s \in AnimatedSystems : LSystemNew(s)
    /\ NoLazyCaller
    /\ x = ResetX /\ y = ResetY /\ angle = ResetAngle
    /\ stepSize = DefaultStepSize /\ angleStep = DefaultAngleStep
    /\ stack = <<>>
    /\ \E scale \in StartScales :
         transform = [IdentityTransform EXCEPT !.scale = scale]
    /\ isDragging = FALSE
    /\ lastMousePos = <<0, 0>>
    /\ commandGenerator = NullGen
    /\ commandsProcessed = 0
    /\ estimatedTotalCommands = 0
    /\ animationSpeed = DefaultSpeed
    /\ isAnimating = FALSE
    /\ isPaused = FALSE
    /\ animationTimeoutId = NullTimeout
    /\ timers = {}
    /\ segments = <<>>
    /\ executed = <<>>
    /\ penPos = <<ResetX, ResetY>>
    /\ HistInit

NextV ==
    \/ \E client \in ViewPoints, deltaY \in ViewDeltas : WheelV(client, deltaY)
    \/ \E client \in ViewPoints : MouseDown(client)
    \/ \E client \in ViewPoints : MouseMoveV(client)
    \/ MouseUp
    \/ ResetViewV

SpecV == InitV /\ [][NextV]_vars

---------------------------------------------------------------------------
(* LSystem.getEstimatedLength.  A JavaScript number is modelled as a record: *)
(* NaN, or an exact value.                                                   *)

NaN == [nan |-> TRUE, value |-> 0]
Number(v) == [nan |-> FALSE, value |-> v]

\* Math.min(3, iterations): the number of generations sampled
SampleIterations == 3

RECURSIVE Pow(_, _)
Pow(b, e) == IF e = 0 THEN 1 ELSE b * Pow(b, e - 1)

\* Math.round(length * Math.pow(sampleLength / length, iterations / samples))
\* for length > 0 and iterations > samples, in exact arithmetic: the value v
\* has v^samples = sampleLength^iterations / length^(iterations - samples),
\* and Math.round gives the integer k with k - 1/2 <= v < k + 1/2
RECURSIVE RoundFrom(_, _, _, _)
RoundFrom(k, power, scaled, denominator) ==
    IF scaled < Pow(2 * k + 1, power) * denominator THEN k
    ELSE RoundFrom(k + 1, power, scaled, denominator)

Extrapolate(length, sampleLength, iterations, samples) ==
    RoundFrom(0, samples,
              Pow(2, samples) * Pow(sampleLength, iterations),
              Pow(length, iterations - samples))

\* an estimator that samples one generation less
getEstimatedLength_twoSamples(iterations) ==
    IF iterations = 0 THEN Number(Len(axiom))
    ELSE LET samplesToTest == Min(SampleIterations - 1, iterations)
             sampleLength == Len(RewriteN(rules, axiom, samplesToTest))
         IN  IF samplesToTest = iterations THEN Number(sampleLength)
             ELSE IF Len(axiom) = 0 THEN NaN
             ELSE Number(Extrapolate(Len(axiom), sampleLength, iterations,
                                     samplesToTest))

getEstimatedLength(iterations) ==
    IF iterations = 0 THEN Number(Len(axiom))
    ELSE LET samplesToTest == Min(SampleIterations, iterations)
             \* the sampling loop rewrites the axiom as iterate() does
             sampleLength == Len(RewriteN(rules, axiom, samplesToTest))
         IN  IF samplesToTest = iterations THEN Number(sampleLength)
             \* growthFactor = 0 / 0 is NaN, and so is all that follows
             ELSE IF Len(axiom) = 0 THEN NaN
             ELSE Number(Extrapolate(Len(axiom), sampleLength, iterations,
                                     samplesToTest))

\* a caller asks for the estimate
GetEstimatedLength(iterations) ==
    /\ estimate' =
         [iterations |-> iterations] @@ getEstimatedLength(iterations)
    /\ UNCHANGED <<lsysVars, calls>>

---------------------------------------------------------------------------
(* Specification of the rewriter and its lazy expander *)

\* the history of calls after one more call
Called(name, n) ==
    LET all == Append(calls, <<name, n>>)
    IN  IF Len(all) > CallWindow THEN Tail(all) ELSE all

InitL ==
    /\ \E s \in Systems : LSystemNew(s)
    /\ NoLazyCaller
    /\ Constructed
    /\ penPos = <<>>
    /\ HistInit

\* the calls on the rewriter, recorded in the history
Iterate ==
    /\ iterate
    /\ calls' = Called("iterate", 1)
    /\ UNCHANGED <<estimate, lazyVars, rendererVars, eagerVars, animHistVars,
                   turtleHistVars>>

IterateN(n) ==
    /\ iterateN(n)
    /\ calls' = Called("iterateN", n)
    /\ UNCHANGED <<estimate, lazyVars, rendererVars, eagerVars, animHistVars,
                   turtleHistVars>>

Reset ==
    /\ LSystem_reset
    /\ calls' = Called("reset", 0)
    /\ UNCHANGED <<estimate, lazyVars, rendererVars, eagerVars, animHistVars,
                   turtleHistVars>>

NextL ==
    \/ Iterate
    \/ \E n \in 0..MaxIterations : IterateN(n)
    \/ Reset
    \/ \E n \in 0..MaxIterations :
         /\ CallGenerateCommands(n)
         /\ UNCHANGED <<lsysHistVars, rendererVars, eagerVars, animHistVars,
                        turtleHistVars>>
    \/ /\ PullNext
       /\ UNCHANGED <<lsysHistVars, rendererVars, eagerVars, animHistVars,
                      turtleHistVars>>

SpecL == InitL /\ [][NextL]_vars

---------------------------------------------------------------------------
(* Specification of the length estimator: getEstimatedLength called on     *)
(* systems of small growth, at any generation of the rewriter.             *)

DoublingRules == << [from |-> "F", to |-> <<"F", "F">>] >>
SwappingRules ==
    << [from |-> "F", to |-> <<"G">>], [from |-> "G", to |-> <<"F">>] >>
PairRules ==
    << [from |-> "F", to |-> <<"F", "G">>], [from |-> "G", to |-> <<"G", "F">>] >>
AppendingRules == << [from |-> "F", to |-> <<"F", "+">>] >>
VanishingRules == << [from |-> "F", to |-> <<>>] >>

EstimatedSystems ==
    { [axiom |-> <<"F">>, rules |-> DoublingRules],
      [axiom |-> <<"F", "F", "F">>, rules |-> DoublingRules],
      [axiom |-> <<"F", "G">>, rules |-> SwappingRules],
      [axiom |-> <<"F", "G">>, rules |-> PairRules],
      [axiom |-> <<"F", "+">>, rules |-> AppendingRules],
      [axiom |-> <<"F">>, rules |-> VanishingRules],
      [axiom |-> <<>>, rules |-> DoublingRules] }

InitE ==
    /\ \E s \in EstimatedSystems : LSystemNew(s)
    /\ NoLazyCaller
    /\ Constructed
    /\ penPos = <<>>
    /\ HistInit

NextE ==
    \/ \E n \in 0..MaxEstimateIterations :
         /\ GetEstimatedLength(n)
         /\ UNCHANGED <<lazyVars, rendererVars, eagerVars, animHistVars,
                        turtleHistVars>>
    \/ Iterate
    \/ Reset

SpecE == InitE /\ [][NextE]_vars

---------------------------------------------------------------------------
(* Properties of the rewriter and the lazy expander (SpecL) *)

IsPrefix(p, q) == Len(p) <= Len(q) /\ SubSeq(q, 1, Len(p)) = p

\* C1: the symbols a generateCommands(n) generator yields are, in order, the
\* string iterateN(n) produces from a fresh reset, whatever the current
\* generation is: what was pulled so far is a prefix of that string, and
\* once the generator is exhausted it is the whole string.
C1_LazyEqualsEager ==
    lazyGen # NullGen =>
        LET eager == RewriteN(rules, axiom, lazyN)
        IN  /\ IsPrefix(lazyOut, eager)
            /\ lazyGen.done => lazyOut = eager

\* a generator for two iterations exhausted while the rewriter is at
\* another generation, whose string differs
C1_Witness ==
    /\ lazyGen # NullGen
    /\ lazyGen.done
    /\ lazyN = 2
    /\ generation = 1
    /\ Len(lazyOut) > Len(currentGeneration)
    /\ currentGeneration # axiom

\* the rewrite the rule table describes: a symbol with an entry becomes the
\* entry's replacement, of any length, a symbol without one stays
RECURSIVE MappedRewrite(_, _)
MappedRewrite(r, str) ==
    IF str = <<>> THEN <<>>
    ELSE (IF Head(str) \in DOMAIN r THEN r[Head(str)] ELSE << Head(str) >>)
            \o MappedRewrite(r, Tail(str))

\* C2: iterate() replaces every symbol that has an entry in the rule map by
\* the entry's replacement (empty replacements included) and every other
\* symbol by itself, in order, and adds exactly 1 to the generation counter.
C2_IterateAppliesEveryRule ==
    [][iterate =>
        /\ currentGeneration' = MappedRewrite(rules, currentGeneration)
        /\ generation' = generation + 1]_vars

---------------------------------------------------------------------------
(* Properties of the turtle state machine (SpecT) *)

\* what the command table says of one executed command
C3_Table(command) ==
    LET newX == x + stepSize * Cos(angle)
        newY == y + stepSize * Sin(angle)
    IN  CASE command \in {"F", "G"} ->
               /\ x' = newX /\ y' = newY /\ angle' = angle /\ stack' = stack
               /\ segments' = Append(segments,
                     [x0 |-> x, y0 |-> y, x1 |-> newX, y1 |-> newY])
          [] command = "f" ->
               /\ x' = newX /\ y' = newY /\ angle' = angle /\ stack' = stack
               /\ segments' = segments
          [] command = "+" ->
               /\ angle' = angle + angleStep /\ x' = x /\ y' = y
               /\ stack' = stack /\ segments' = segments
          [] command = "-" ->
               /\ angle' = angle - angleStep /\ x' = x /\ y' = y
               /\ stack' = stack /\ segments' = segments
          [] command \in {"[", "]"} -> TRUE
          [] OTHER ->
               UNCHANGED <<x, y, angle, stack, segments>>

\* C3: F and G move the cursor one step along the heading and emit one
\* segment from the old to the new position; f moves without a segment;
\* + adds and - subtracts the angle step; none of them touches the stack;
\* a symbol that is no command changes nothing and emits nothing.
C3_DispatchTable ==
    [][\A command \in Commands : Execute(command) => C3_Table(command)]_vars

\* a G drawn after a turn and a pen-up move
C3_Witness ==
    /\ lastCommand = "G"
    /\ angle # ResetAngle
    /\ Len(segments) = 2
    /\ segments[2].x0 # segments[1].x1

\* C4: when a ']' closes a '[' (the commands between them being balanced),
\* position, heading and stack are exactly what they were before the '['.
C4_BalancedBracketRestores ==
    matched # <<>> => Cursor = matched[1]

\* a bracket closed inside another one, after a line was drawn in it that
\* ended somewhere else
C4_Witness ==
    /\ matched # <<>>
    /\ stack # <<>>
    /\ segments # <<>>
    /\ segments[Len(segments)].y1 # y

\* C5: a ']' executed on an empty stack changes neither position, heading
\* nor stack (and draws nothing), so the cursor after surplus ']' symbols is
\* the one before them.
C5_PopOnEmptyIsNoOp ==
    [][(Execute("]") /\ stack = <<>>) =>
          UNCHANGED <<x, y, angle, stack, penPos, segments>>]_vars

\* a surplus ']' executed away from the reset cursor
C5_Witness ==
    /\ lastCommand = "]"
    /\ lastDepth = 0
    /\ marks = <<>>
    /\ y # ResetY
    /\ angle # ResetAngle

---------------------------------------------------------------------------
(* Properties of the animated renderer (Spec) *)

TickStep == \E t \in timers : Tick(t)
Running == isAnimating /\ ~isPaused
NextSymbol == stream[Len(executed) + 1]
Redraws ==
    \/ \E client \in WheelPoints, deltaY \in WheelDeltas : Wheel(client, deltaY)
    \/ \E client \in MovePoints : MouseMove(client)
    \/ ResetView

\* the step pulls the next symbol of the stream, executes it and counts it
PullsOne ==
    /\ Len(executed) < Len(stream)
    /\ executed' = Append(executed, NextSymbol)
    /\ commandsProcessed' = commandsProcessed + 1
    /\ LET r == executeCommand(Renderer, NextSymbol)
       IN  /\ x' = r.x /\ y' = r.y /\ angle' = r.angle /\ stack' = r.stack
           /\ segments' = r.segments

\* the step executes nothing
PullsNothing ==
    UNCHANGED <<executed, commandsProcessed, x, y, angle, stack, segments>>

\* C6 as stated: every tick that runs while the animation is running and
\* unpaused pulls exactly one symbol, executes it and adds 1 to
\* commandsProcessed; a tick that runs while stopped or paused changes
\* nothing.
C6_EveryRunningTickPullsOne ==
    [][TickStep =>
         IF Running THEN PullsOne
         ELSE PullsNothing /\ UNCHANGED <<isAnimating, isPaused, commandGenerator>>]_vars

\* C6 amended: a tick that runs while the animation is running and unpaused
\* pulls exactly one symbol, executes it and adds 1 to commandsProcessed
\* when the stream has a symbol left; when the stream is exhausted it
\* executes nothing, leaves commandsProcessed and ends the animation.  The
\* first tick, run inside startAnimation(), does the same.  A tick that runs
\* while stopped or paused changes nothing.  The symbols executed since
\* draw() are always a prefix of the stream.
C6_TickPullsOneOrEnds ==
    /\ [] IsPrefix(executed, stream)
    /\ [][TickStep =>
            IF Running
            THEN IF Len(executed) < Len(stream)
                 THEN PullsOne /\ isAnimating'
                 ELSE PullsNothing /\ ~isAnimating' /\ timers' = {}
            ELSE PullsNothing /\ UNCHANGED <<isAnimating, isPaused, commandGenerator>>]_vars
    /\ [][(StartAnimation /\ commandGenerator # NullGen /\ ~Running) =>
            IF Len(executed) < Len(stream)
            THEN PullsOne /\ isAnimating'
            ELSE PullsNothing /\ ~isAnimating']_vars

\* the six symbols of a stream executed one per tick, and the animation
\* ended by the tick that found the stream exhausted
C6_Witness ==
    /\ Len(stream) = 6
    /\ executed = stream
    /\ commandsProcessed = 6
    /\ ~isAnimating
    /\ timers = {}
    /\ interrupted.kind = "none"

\* C7: pauseAnimation() keeps the stream position, commandsProcessed, the
\* cursor and the stack; while paused no tick is pending, and a symbol is
\* executed only by startAnimation(); startAnimation() then continues with
\* the symbol after the last one executed, so that under any interleaving
\* of pause and start the executed symbols are the stream's, in order.
C7_PauseKeepsPosition ==
    /\ [] (isPaused => timers = {})
    /\ [] IsPrefix(executed, stream)
    /\ [][PauseAnimation =>
            UNCHANGED <<executed, commandGenerator, commandsProcessed,
                        x, y, angle, stack>>]_vars
    /\ [][(isPaused /\ Len(executed') > Len(executed)) => StartAnimation]_vars
    /\ [][(StartAnimation /\ isAnimating /\ isPaused /\ Len(executed) < Len(stream))
            => PullsOne /\ Running']_vars

\* an animation paused with a tick pending after its second symbol or
\* later, and resumed: the next symbol of the stream was executed
C7_Witness ==
    /\ interrupted.kind = "pause"
    /\ interrupted.pending
    /\ interrupted.resumed
    /\ interrupted.pos >= 2
    /\ Len(executed) = interrupted.pos + 1
    /\ Len(executed) < Len(stream)
    /\ Running

\* C8: after stopAnimation() interrupted an animation part-way through its
\* stream, the symbols startAnimation() executes next start the stream
\* afresh: they are not the continuation from the position reached.
C8_RestartIsFresh ==
    (/\ interrupted.kind = "stop"
     /\ interrupted.pos >= 1
     /\ interrupted.pos < Len(stream)
     /\ Len(executed) > interrupted.pos)
    => SubSeq(executed, interrupted.pos + 1, Len(executed))
         = SubSeq(stream, 1, Len(executed) - interrupted.pos)

\* C9: right after stopAnimation(), whatever the state it was called in,
\* the animation is neither running nor paused, commandsProcessed is 0, the
\* cursor is the reset cursor, the stack is empty and no tick is pending.
C9_StopResets ==
    [][StopAnimation =>
         /\ ~isAnimating' /\ ~isPaused'
         /\ commandsProcessed' = 0
         /\ x' = ResetX /\ y' = ResetY /\ angle' = ResetAngle
         /\ stack' = <<>>
         /\ timers' = {}]_vars

\* stopAnimation() called with a tick pending, inside an open bracket
C9_Witness ==
    /\ interrupted.kind = "stop"
    /\ ~interrupted.resumed
    /\ interrupted.pending
    /\ interrupted.pos \in {2, 3, 4}
    /\ Len(stream) = 6
    /\ commandsProcessed = 0
    /\ stack = <<>>
    /\ timers = {}
    /\ ~isAnimating

\* stopAnimation() or clear() has returned and startAnimation() was not
\* called since
Halted == interrupted.kind \in {"stop", "clear"} /\ ~interrupted.resumed

C12_StartWhileRunningIsNoOp ==
    [][(StartAnimation /\ Running) => UNCHANGED rendererVars]_vars

\* startAnimation() was called on a running animation, part-way through
\* its stream with its one tick pending, and the animation is as it was
C12_Witness ==
    /\ interrupted.again
    /\ Running
    /\ Cardinality(timers) = 1
    /\ Len(executed) \in 2..(Len(stream) - 1)
    /\ commandsProcessed = Len(executed)

\* C13: a wheel zoom, a drag pan and resetView() leave the turtle cursor
\* (position and heading) and the saved-cursor stack unchanged, in every
\* state.
C13_ViewOpsKeepTurtle ==
    [][Redraws => UNCHANGED <<x, y, angle, stack>>]_vars

---------------------------------------------------------------------------
(* Properties of one uninterrupted animation (SpecRun) *)

\* the animation has ended with every symbol of the stream executed once
RunFinished ==
    /\ commandGenerator # NullGen
    /\ commandGenerator.done
    /\ ~isAnimating
    /\ commandsProcessed = Len(stream)
    /\ executed = stream
    /\ timers = {}

\* C11: once startAnimation() has begun the animation of the stream bound by
\* draw(), with no pause, stop, clear or draw after it and every scheduled
\* tick firing, the animation eventually is not animating with
\* commandsProcessed = L and the executed symbols being the stream; from
\* then on this stays so: no tick is pending and none is scheduled.
C11_AnimationTerminates ==
    /\ [] ((commandGenerator # NullGen /\ isAnimating) => <>[] RunFinished)
    /\ [][RunFinished => RunFinished']_vars

\* a stream of six symbols animated to its end, with a zoom or pan and a
\* change of speed on the way
C11_Witness ==
    /\ RunFinished
    /\ Len(stream) = 6
    /\ viewEvents = 1
    /\ animationSpeed # DefaultSpeed
    /\ draws = 1

---------------------------------------------------------------------------
(* Properties of the view transform (SpecV) *)

\* screen coordinate of a world coordinate under a scale and an offset
ToScreen(world, scale, offset) == RAdd(RMul(world, scale), offset)

\* the wheel event at `client` keeps the world point under the pointer
\* under the pointer
ZoomKeepsPoint(client) ==
    LET mouseX == RInt(client[1] - RectLeft)
        mouseY == RInt(client[2] - RectTop)
        worldX == RDiv(RSub(mouseX, transform.offsetX), transform.scale)
        worldY == RDiv(RSub(mouseY, transform.offsetY), transform.scale)
    IN  /\ ToScreen(worldX, transform'.scale, transform'.offsetX) = mouseX
        /\ ToScreen(worldY, transform'.scale, transform'.offsetY) = mouseY

\* C14: after a wheel zoom the world point that was under the pointer
\* before the zoom, (pointer - offset) / scale, is under the pointer again:
\* world * newScale + newOffset = pointer, also when the scale was clamped.
C14_ZoomAtPoint ==
    [][\A client \in ViewPoints, deltaY \in ViewDeltas :
          WheelV(client, deltaY) => ZoomKeepsPoint(client)]_vars

\* a zoom out away from the origin that was clamped at 0.1, after a zoom in
\* at another point had moved the offset
C14_Witness ==
    /\ transform.scale = MinScale
    /\ transform.offsetX[2] = 11
    /\ transform.offsetY # RInt(0)
    /\ viewEvents = 2

\* the scale a wheel event with deltaY makes of `scale`
ZoomedScale(scale, deltaY) ==
    LET product == RMul(scale, IF deltaY > 0 THEN Rat(9, 10) ELSE Rat(11, 10))
    IN  IF RLess(product, Rat(1, 10)) THEN Rat(1, 10)
        ELSE IF RLess(RInt(10), product) THEN RInt(10)
        ELSE product

\* C15: the view scale always lies in [0.1, 10]; a wheel event multiplies
\* it by 0.9 when deltaY is positive and by 1.1 otherwise, then clamps it;
\* resetView() sets scale 1 and offset (0, 0).
C15_ScaleWithinBounds ==
    /\ [] (~RLess(transform.scale, Rat(1, 10)) /\ ~RLess(RInt(10), transform.scale))
    /\ [][\A client \in ViewPoints, deltaY \in ViewDeltas :
            WheelV(client, deltaY) =>
                transform'.scale = ZoomedScale(transform.scale, deltaY)]_vars
    /\ [][ResetViewV =>
            transform' = [scale |-> RInt(1), offsetX |-> RInt(0),
                          offsetY |-> RInt(0)]]_vars

\* the scale 10 zoomed out to 9, in to 9.9 and in again at another point,
\* which clamped it at 10
C15_Witness ==
    /\ transform.scale = MaxScale
    /\ transform.offsetX = Rat(-100, 99)
    /\ transform.offsetY = Rat(-50, 99)
    /\ viewEvents = 3

---------------------------------------------------------------------------
(* Properties of eager rewriting (SpecL) *)

\* the last two calls were iterateN(n) and iterateN(m), made on a fresh
\* rewriter or right after a reset()
TwoPasses ==
    /\ Len(calls) >= 2
    /\ calls[Len(calls)][1] = "iterateN"
    /\ calls[Len(calls) - 1][1] = "iterateN"
    /\ Len(calls) = 2 \/ calls[Len(calls) - 2][1] = "reset"

\* C16: iterateN(n) followed by iterateN(m) from a fresh reset leaves the
\* sequence and the generation counter (n + m) that a single
\* iterateN(n + m) from a fresh reset leaves; iterateN(0) changes neither
\* the sequence nor the counter.
C16_IterateNComposes ==
    /\ [] (TwoPasses =>
             LET total == calls[Len(calls) - 1][2] + calls[Len(calls)][2]
             IN  /\ currentGeneration = RewriteN(rules, axiom, total)
                 /\ generation = total)
    /\ [][IterateN(0) => UNCHANGED <<currentGeneration, generation>>]_vars

\* reset(), iterateN(1), iterateN(1) on a system whose second generation
\* differs from its first
C16_Witness ==
    /\ calls = << <<"reset", 0>>, <<"iterateN", 1>>, <<"iterateN", 1>> >>
    /\ generation = 2
    /\ Len(currentGeneration) > Len(Rewrite(rules, axiom))

\* C17: reset() sets the current sequence to the axiom given at construction
\* and the generation counter to 0; in every reachable state the current
\* sequence is the axiom rewritten `generation` times.
C17_ResetRestoresAxiom ==
    /\ [] (currentGeneration = RewriteN(rules, axiom, generation))
    /\ [][Reset => (currentGeneration' = axiom /\ generation' = 0)]_vars
    /\ [] ((calls # <<>> /\ calls[Len(calls)][1] = "reset")
             => (currentGeneration = axiom /\ generation = 0))

\* reset() called after iterate() and iterateN(1) had rewritten the axiom
C17_Witness ==
    /\ calls = << <<"iterate", 1>>, <<"iterateN", 1>>, <<"reset", 0>> >>
    /\ currentGeneration = axiom
    /\ generation = 0
    /\ Rewrite(rules, axiom) # axiom

---------------------------------------------------------------------------
(* Properties of the length estimator (SpecE) *)

\* C18: for N in 0..3 getEstimatedLength(N) is exactly the length of the
\* sequence iterateN(N) produces from the axiom, whatever the current
\* generation is.
C18_ExactUpToThree ==
    estimate.iterations \in 0..3 =>
        /\ ~estimate.nan
        /\ estimate.value = Len(RewriteN(rules, axiom, estimate.iterations))

\* the estimate for three iterations of a system that does not grow by a
\* constant factor, asked while the rewriter is at generation 1
C18_Witness ==
    /\ estimate.iterations = 3
    /\ estimate.value = 5
    /\ Len(axiom) = 2
    /\ generation = 1

\* the symbols that occur: those of the axiom, of the rules' left sides and
\* of their replacements
Symbols ==
    {axiom[i] : i \in DOMAIN axiom} \cup DOMAIN rules
        \cup UNION {{rules[k][i] : i \in DOMAIN rules[k]} : k \in DOMAIN rules}

\* every symbol that occurs is replaced by a sequence of length g (a symbol
\* without a rule is replaced by itself)
UniformGrowth(g) ==
    \A symbol \in Symbols :
        (IF symbol \in DOMAIN rules THEN Len(rules[symbol]) ELSE 1) = g

\* C19: for a rule set in which every symbol that occurs is replaced by a
\* sequence of the same length g, getEstimatedLength(N) is
\* length(axiom) * g^N for every N >= 0.
C19_UniformGrowthIsExact ==
    \A g \in 0..2 :
        (estimate.iterations >= 0 /\ UniformGrowth(g)) =>
            /\ ~estimate.nan
            /\ estimate.value = Len(axiom) * Pow(g, estimate.iterations)

\* what holds of the code: the same for a non-empty axiom and g >= 1
UniformGrowthIsExactWhenNonEmpty ==
    \A g \in 1..2 :
        (estimate.iterations >= 0 /\ UniformGrowth(g) /\ axiom # <<>>) =>
            /\ ~estimate.nan
            /\ estimate.value = Len(axiom) * Pow(g, estimate.iterations)

\* C20: for every axiom, the empty one included, every rule set and every
\* N >= 0, getEstimatedLength(N) is a defined number that is not negative,
\* never NaN.
C20_EstimateIsDefined ==
    estimate.iterations >= 0 => (~estimate.nan /\ estimate.value >= 0)


---------------------------------------------------------------------------
(* Properties of draw(), under Spec *)

\* C21: after draw(stream, estimatedLength), called in any reachable state,
\* the bound stream is `stream`, estimatedTotalCommands is estimatedLength,
\* commandsProcessed is 0, and the drawing path starts at the turtle's reset
\* cursor: reset position, heading -90 degrees, empty stack.
C21_DrawStartsAtResetCursor ==
    [][\A n \in 0..MaxDrawIterations, e \in EstimatedLengths :
          Draw(n, e) =>
            /\ commandGenerator' = generateCommands(n)
            /\ estimatedTotalCommands' = e
            /\ commandsProcessed' = 0
            /\ penPos' = <<ResetX, ResetY>>
            /\ x' = ResetX /\ y' = ResetY
            /\ angle' = ResetAngle /\ stack' = <<>>]_vars

\* what draw() does do: it binds the stream and the estimate, zeroes the
\* count and starts the path at the cursor the turtle has, which it leaves
\* alone, as it leaves the animation flags and the pending timeouts
DrawStartsAtCurrentCursor ==
    [][\A n \in 0..MaxDrawIterations, e \in EstimatedLengths :
          Draw(n, e) =>
            /\ commandGenerator' = generateCommands(n)
            /\ estimatedTotalCommands' = e
            /\ commandsProcessed' = 0
            /\ penPos' = <<x, y>>
            /\ UNCHANGED <<x, y, angle, stack, isAnimating, isPaused,
                           timers, animationTimeoutId, segments>>]_vars


---------------------------------------------------------------------------
(* The example of the plant string, under SpecRun *)

PlantStream == <<"F", "[", "+", "F", "]", "F">>

\* the stream is exhausted, and no wheel, drag or resetView came in between
Exhausted ==
    /\ commandGenerator # NullGen
    /\ commandGenerator.done
    /\ ~isAnimating
    /\ viewEvents = 0

\* C22: animating F[+F]F from the reset cursor with step 10 and angle 90
\* degrees, run to exhaustion, processes exactly 6 symbols, ends with the
\* cursor 2 steps (20 units) along the original heading and the heading
\* unchanged, emits exactly 3 line segments and leaves the stack empty.
C22_PlantExample ==
    (Exhausted /\ stream = PlantStream) =>
        /\ commandsProcessed = 6
        /\ executed = PlantStream
        /\ x = ResetX + 2 * DefaultStepSize * Cos(ResetAngle)
        /\ y = ResetY + 2 * DefaultStepSize * Sin(ResetAngle)
        /\ angle = ResetAngle
        /\ Len(segments) = 3
        /\ stack = <<>>

C22_Witness ==
    /\ Exhausted
    /\ stream = PlantStream
    /\ stepSize = 10 /\ angleStep = 90
    /\ commandsProcessed = 6
    /\ segments =
         << [x0 |-> ResetX, y0 |-> ResetY, x1 |-> ResetX, y1 |-> ResetY - 10],
            [x0 |-> ResetX, y0 |-> ResetY - 10,
             x1 |-> ResetX + 10, y1 |-> ResetY - 10],
            [x0 |-> ResetX, y0 |-> ResetY - 10,
             x1 |-> ResetX, y1 |-> ResetY - 20] >>


---------------------------------------------------------------------------
(* Properties of the reported progress, under SpecP *)

Progress == getAnimationState(Renderer).progress

\* a step of draw(), stopAnimation() or clear()
StartsOver ==
    \/ \E n \in 0..MaxDrawIterations, e \in ProgressLengths : Draw(n, e)
    \/ StopAnimation
    \/ Clear

\* progress is commandsProcessed / estimatedTotalCommands, and 0 when the
\* estimate is 0
ProgressIsQuotient ==
    /\ estimatedTotalCommands >= 0
    /\ estimatedTotalCommands # 0 =>
          RMul(Progress, RInt(estimatedTotalCommands)) = RInt(commandsProcessed)
    /\ estimatedTotalCommands = 0 => Progress = RInt(0)

\* apart from draw(), stopAnimation() and clear(), no step lowers the count
\* or the progress, and the count grows by the symbols the step executed
ProgressNeverDecreases ==
    ~StartsOver =>
        /\ commandsProcessed' >= commandsProcessed
        /\ ~RLess(Progress', Progress)
        /\ commandsProcessed' - commandsProcessed
             = Len(executed') - Len(executed)

\* C23 as stated: progress is commandsProcessed / estimatedTotalCommands (0
\* when the estimate is 0), it never decreases between a draw() and the next
\* draw(), stopAnimation() or clear(), and it exceeds 1 exactly when more
\* symbols were executed than estimated.
C23_ProgressOvershootsExactly ==
    /\ [] ProgressIsQuotient
    /\ [][ProgressNeverDecreases]_vars
    /\ [] (RLess(RInt(1), Progress)
             <=> commandsProcessed > estimatedTotalCommands)

\* C23 amended: with an estimate of 0 the progress stays 0 however many
\* symbols are executed; it exceeds 1 exactly when the estimate is positive
\* and more symbols were executed than estimated.
C23_ProgressMonotone ==
    /\ [] ProgressIsQuotient
    /\ [][ProgressNeverDecreases]_vars
    /\ [] (RLess(RInt(1), Progress)
             <=> (estimatedTotalCommands > 0
                  /\ commandsProcessed > estimatedTotalCommands))
    /\ [] ((estimatedTotalCommands = 0 /\ commandsProcessed > 0)
             => Progress = RInt(0))

\* an overshoot reached through a pause, a resumption and a zoom or pan
C23_Witness ==
    /\ estimatedTotalCommands = 2
    /\ commandsProcessed = 3
    /\ Progress = Rat(3, 2)
    /\ interrupted.kind = "pause"
    /\ interrupted.resumed
    /\ viewEvents = 1

\* symbols executed against an estimate of 0
C23_ZeroEstimateWitness ==
    /\ commandGenerator # NullGen
    /\ estimatedTotalCommands = 0
    /\ commandsProcessed = 2
    /\ Progress = RInt(0)


---------------------------------------------------------------------------
(* Properties of clear() and of the renderer with no stream, under Spec *)

DrawStep == \E n \in 0..MaxDrawIterations, e \in EstimatedLengths : Draw(n, e)

\* no stream is bound: nothing is counted, estimated, executed or animating
Unbound ==
    /\ commandGenerator = NullGen
    /\ commandsProcessed = 0
    /\ estimatedTotalCommands = 0
    /\ Progress = RInt(0)
    /\ ~getAnimationState(Renderer).isAnimating
    /\ executed = <<>>

\* C24: after clear(), called in any state, no stream is bound,
\* commandsProcessed and estimatedTotalCommands are 0 (progress 0) and the
\* state is reported as not animating and not paused; with no stream bound,
\* startAnimation() and any tick execute no symbol and the state stays
\* reported as not animating until a new draw().
C24_ClearUnbinds ==
    /\ [][Clear => (Unbound' /\ ~getAnimationState(Renderer)'.isPaused)]_vars
    /\ [] (commandGenerator = NullGen => Unbound)
    /\ [][(commandGenerator = NullGen /\ ~DrawStep) =>
             (Unbound' /\ segments' = <<>>)]_vars

\* clear() interrupted a running animation and startAnimation() was called
\* afterwards
C24_Witness ==
    /\ interrupted.kind = "clear"
    /\ interrupted.pending
    /\ interrupted.pos > 0
    /\ interrupted.resumed
    /\ Unbound
    /\ timers = {}


---------------------------------------------------------------------------
(* Properties of the animation speed, under SpecS *)

\* C25: in every reachable state the animation speed is an integer in
\* [1, 100], initially 50; setAnimationSpeed(v) for any integer v sets it to
\* min(100, max(1, v)), changes no other state and does not re-arm or alter
\* a pending tick; the new value is used only when the next tick is
\* scheduled.
C25_SpeedClamped ==
    /\ animationSpeed = 50
    /\ [] (animationSpeed \in 1..100)
    /\ [][\A v \in SpeedInputs :
            SetAnimationSpeed(v) =>
              /\ animationSpeed' = (IF v < 1 THEN 1 ELSE IF v > 100 THEN 100 ELSE v)
              /\ timers' = timers
              /\ animationTimeoutId' = animationTimeoutId
              /\ UNCHANGED <<x, y, angle, stepSize, angleStep, stack,
                             transform, isDragging, lastMousePos,
                             commandGenerator, commandsProcessed,
                             estimatedTotalCommands, isAnimating, isPaused,
                             penPos, segments, executed>>]_vars
    \* a timeout is scheduled with the speed of the moment it is scheduled
    /\ [][\A t \in timers' \ timers : t.delay = animationSpeed']_vars

\* a tick is pending with the delay it was scheduled with, and the speed
\* has been changed since to a value between the limits
C25_Witness ==
    /\ animationSpeed = 30
    /\ \E t \in timers : t.delay = 50
    /\ isAnimating /\ ~isPaused


---------------------------------------------------------------------------
(* Invariants of the animation flags and the pending timeouts, under Spec *)

\* C26: under every interleaving of draw, startAnimation, pauseAnimation,
\* stopAnimation, clear, setAnimationSpeed, pan/zoom and timer callbacks, at
\* most one tick is pending at any time, and whenever a tick is pending the
\* animation is running and not paused.
C26_AtMostOneTickPending ==
    /\ Cardinality(timers) <= 1
    /\ timers # {} => (isAnimating /\ ~isPaused)
    /\ \A t \in timers : t.id = animationTimeoutId

\* a tick is pending again after a pause, a resumption and a second draw()
C26_Witness ==
    /\ Cardinality(timers) = 1
    /\ interrupted.kind = "pause"
    /\ interrupted.pending
    /\ interrupted.resumed
    /\ draws = 2
    /\ commandsProcessed > 0


\* C28: the reported animation state is always one of Idle/Done (not
\* animating, not paused), Running (animating, not paused) or Paused
\* (animating and paused): isPaused is never true while isAnimating is false.
C28_PausedOnlyWhileAnimating ==
    getAnimationState(Renderer).isPaused
        => getAnimationState(Renderer).isAnimating


---------------------------------------------------------------------------
(* The eager renderer against the animated one, under SpecR *)

\* C27: for every command string, the eager renderer's draw(string) started
\* from the reset cursor ends with the same position, heading and
\* saved-cursor stack, and emits the same line segments in the same order,
\* as the animated renderer after it has processed every symbol of the same
\* string, uninterrupted, from the reset cursor.
C27_EagerMatchesAnimated ==
    (RunFinished /\ eagerTurtle.calls = 1 /\ eagerTurtle.given = stream) =>
        /\ eagerTurtle.x = x
        /\ eagerTurtle.y = y
        /\ eagerTurtle.angle = angle
        /\ eagerTurtle.stack = stack
        /\ eagerTurtle.segments = segments
        /\ eagerTurtle.penPos = penPos

\* both renderers have drawn a string with a branch, a turn and a line
\* drawn after the branch was closed
C27_Witness ==
    /\ RunFinished
    /\ eagerTurtle.calls = 1
    /\ eagerTurtle.given = stream
    /\ stream = <<"[", "+", "]", "F">>
    /\ Len(eagerTurtle.segments) = 1
    /\ eagerTurtle.angle = ResetAngle

=============================================================================
